---- MODULE Spec2Model ----
(***************************************************************************)
(* Model of the SAM helper scripts of annota:                              *)
(*   scripts/test_sam_decoder.py        one decode request (main)          *)
(*   scripts/generate_sam_embeddings.py one embedding run (iter_images,    *)
(*                                      main)                              *)
(* Spec    is the decode request, SpecEmb the embedding run.               *)
(***************************************************************************)
EXTENDS Integers, Sequences, FiniteSets, TLC

(***************************************************************************)
(* Bounds of the model.                                                    *)
(***************************************************************************)
\* side of the decoder's native mask; the decoder's is 256, the model
\* checks the same index arithmetic on a small square
NativeSize == 2
\* most --click arguments of one request
MaxClicks == 2

(***************************************************************************)
(* Program constants.                                                      *)
(***************************************************************************)
\* longest image side after the encoder's scaling
TargetLongSide == 1024
\* value of a foreground pixel
Foreground == 255

(***************************************************************************)
(* Exact rational arithmetic for the float coordinates: <<n, d>>, d > 0,   *)
(* in lowest terms.                                                        *)
(***************************************************************************)
Abs(a) == IF a < 0 THEN -a ELSE a

RECURSIVE GCD(_, _)
GCD(a, b) == IF b = 0 THEN a ELSE GCD(b, a % b)

Rat(n, d) ==
  LET g == GCD(Abs(n), Abs(d))
      s == IF d < 0 THEN -1 ELSE 1
  IN  << (s * n) \div g, (s * d) \div g >>

RatMul(a, b) == Rat(a[1] * b[1], a[2] * b[2])

Max(a, b) == IF a > b THEN a ELSE b

(***************************************************************************)
(* Inputs of a decode request.                                             *)
(***************************************************************************)
\* --image-width and --image-height: negative, zero, below, at and above the
\* native size, up to more than twice it
Dims == -1 .. (2 * NativeSize + 1)

\* --click arguments "x,y[:label]"; lbl = "none" is an argument without
\* ":label", "x" a label that is not an integer
ClickArgs ==
  { [x |-> 1, y |-> 1, lbl |-> "none"],
    [x |-> 2, y |-> 1, lbl |-> "0"],
    [x |-> 1, y |-> 2, lbl |-> "2"],
    [x |-> 2, y |-> 2, lbl |-> "x"] }

\* lists of distinct arguments
ClickLists ==
  UNION { { l \in [1..n -> ClickArgs] :
              \A i, j \in 1..n : i # j => l[i] # l[j] } : n \in 0..MaxClicks }

\* shapes of the array stored in the --embedding file
ExpectedShape == <<1, 256, 64, 64>>
EmbShapes == { ExpectedShape, <<1, 128, 64, 64>> }

Pixels == (0 .. NativeSize - 1) \X (0 .. NativeSize - 1)

\* logits are in units of 0.001
LogitValues == {-1, 0, 1}

\* logit maps the decoder may return: one pixel of any value on a uniform
\* background
LogitMaps ==
  { [p \in Pixels |-> IF p = q THEN v ELSE b] :
      q \in Pixels, v \in LogitValues, b \in {-1, 1} }

\* what sess.run(None, feeds) may return: a list of 0, 1 or 3 tensors, the
\* mask stack first
EngineOutputs ==
  { <<>> } \cup { <<m>> : m \in LogitMaps }
           \cup { <<m, "iou_predictions", "low_res_masks">> : m \in LogitMaps }

\* a value not assigned yet is the empty tuple, an assigned one a 1-tuple;
\* the point arrays are the tuples of their rows
NoValue == <<>>
Some(v) == <<v>>
Get(o) == o[1]

NoError == "none"

VARIABLES
  pc,            \* position in test_sam_decoder.main
  image_width, image_height, click, emb,   \* args and the loaded embedding
  point_coords, point_labels, feeds,
  runCalls,      \* number of sess.run calls of this request
  out, masks, binary,
  nativeFile, fullFile,    \* <out>.png and <out>.full.png
  error

decVars == << pc, image_width, image_height, click, emb, point_coords,
              point_labels, feeds, runCalls, out, masks, binary, nativeFile,
              fullFile, error >>

VARIABLES
  epc,           \* position in generate_sam_embeddings.main
  images,        \* --images: a file, or the files of a directory tree
  idx,           \* number of images the loop is done with
  npyFiles,      \* the <out>/<stem>.npy files: [name, content]
  jsonFiles,     \* the <out>/<stem>.json files: [name, content]
  count,
  okLog,         \* the images of the "[OK]" lines printed, in order
  sidecarFailed  \* the images whose metadata step raised

embVars == << epc, images, idx, npyFiles, jsonFiles, count, okLog,
              sidecarFailed >>

vars == << decVars, embVars >>

\* no embedding run
EmbIdle ==
  /\ epc = "idle"
  /\ images = [kind |-> "dir", files |-> {}]
  /\ idx = 0
  /\ npyFiles = {}
  /\ jsonFiles = {}
  /\ count = 0
  /\ okLog = <<>>
  /\ sidecarFailed = {}

Init ==
  /\ EmbIdle
  /\ pc = "start"
  /\ image_width \in Dims
  /\ image_height \in Dims
  /\ click \in ClickLists
  /\ emb = NoValue
  /\ point_coords = NoValue
  /\ point_labels = NoValue
  /\ feeds = NoValue
  /\ runCalls = 0
  /\ out = NoValue
  /\ masks = NoValue
  /\ binary = NoValue
  /\ nativeFile = NoValue
  /\ fullFile = NoValue
  /\ error = NoError

Fail(e) == pc' = "failed" /\ error' = e

(***************************************************************************)
(* Lines 48-49: the session and the embedding are loaded; the array is     *)
(* converted to float32 and kept whatever its shape.                       *)
(***************************************************************************)
Load ==
  /\ pc = "start"
  /\ \E s \in EmbShapes : emb' = Some(s)
  /\ pc' = "loaded"
  /\ UNCHANGED embVars
  /\ UNCHANGED << image_width, image_height, click, point_coords,
                  point_labels, feeds, runCalls, out, masks, binary,
                  nativeFile, fullFile, error >>

\* the decoder or the embedding file is missing or unreadable
LoadFail ==
  /\ pc = "start"
  /\ Fail("IOError")
  /\ UNCHANGED embVars
  /\ UNCHANGED << image_width, image_height, click, emb, point_coords,
                  point_labels, feeds, runCalls, out, masks, binary,
                  nativeFile, fullFile >>

(***************************************************************************)
(* parse_click                                                             *)
(***************************************************************************)
\* int(lbl), and the default label of an argument without ":"
ParseLabel(lbl) ==
  CASE lbl = "none" -> 1
    [] lbl = "0"    -> 0
    [] lbl = "2"    -> 2

\* int(lbl) raises ValueError
Malformed(c) == c.lbl = "x"

parse_click(c) == << Rat(c.x, 1), Rat(c.y, 1), ParseLabel(c.lbl) >>

sam_scale == Rat(TargetLongSide, Max(image_width, image_height))

\* the default click put at (width, height) instead of the centre
DefaultClick_Corner == << Rat(image_width, 1), Rat(image_height, 1), 1 >>

\* line 56
DefaultClick == << Rat(image_width, 2), Rat(image_height, 2), 1 >>

\* lines 53-56
Clicks ==
  IF click = <<>> THEN << DefaultClick >>
  ELSE [i \in 1..Len(click) |-> parse_click(click[i])]

PaddingLabel == -1

\* lines 58-62
PointCoords(cl) ==
  [i \in 1..(Len(cl) + 1) |->
     IF i <= Len(cl)
     THEN << RatMul(cl[i][1], sam_scale), RatMul(cl[i][2], sam_scale) >>
     ELSE << Rat(0, 1), Rat(0, 1) >>]

\* line 64 left out: the last label stays 0
PointLabels_NoPadding(cl) ==
  [i \in 1..(Len(cl) + 1) |-> IF i <= Len(cl) THEN cl[i][3] ELSE 0]

\* lines 59-64
PointLabels(cl) ==
  [i \in 1..(Len(cl) + 1) |->
     IF i <= Len(cl) THEN cl[i][3] ELSE PaddingLabel]

\* lines 66-77
Feeds(coords, labels) ==
  [ image_embeddings |-> Get(emb),
    point_coords     |-> coords,
    point_labels     |-> labels,
    mask_input       |-> "zeros",
    has_mask_input   |-> 0,
    orig_im_size     |-> << image_height, image_width >> ]

(***************************************************************************)
(* Lines 52-77: the scale, the clicks, the point tensors and the feeds.    *)
(* It fails on the division by max(width, height) = 0 and on a click that  *)
(* does not parse.                                                         *)
(***************************************************************************)
Normalize ==
  /\ pc = "loaded"
  /\ IF Max(image_width, image_height) = 0
     THEN /\ Fail("ZeroDivisionError")
          /\ UNCHANGED << point_coords, point_labels, feeds >>
     ELSE IF \E i \in 1..Len(click) : Malformed(click[i])
     THEN /\ Fail("ValueError")
          /\ UNCHANGED << point_coords, point_labels, feeds >>
     ELSE /\ point_coords' = PointCoords(Clicks)
          /\ point_labels' = PointLabels(Clicks)
          /\ feeds' = Some(Feeds(PointCoords(Clicks), PointLabels(Clicks)))
          /\ pc' = "built"
          /\ UNCHANGED error
  /\ UNCHANGED embVars
  /\ UNCHANGED << image_width, image_height, click, emb, runCalls, out,
                  masks, binary, nativeFile, fullFile >>

(***************************************************************************)
(* Line 79: sess.run(None, feeds).  The engine returns a list of tensors   *)
(* or raises, whatever the feeds are.                                      *)
(***************************************************************************)
Invoke ==
  /\ pc = "built"
  /\ runCalls' = runCalls + 1
  /\ \/ /\ \E o \in EngineOutputs : out' = o
        /\ pc' = "ran"
        /\ UNCHANGED error
     \/ /\ Fail("EngineError")
        /\ UNCHANGED out
  /\ UNCHANGED embVars
  /\ UNCHANGED << image_width, image_height, click, emb, point_coords,
                  point_labels, feeds, masks, binary, nativeFile, fullFile >>

\* lines 82-83: the mask stack is the first output
ResolveIndex0 ==
  /\ pc = "ran"
  /\ Len(out) >= 1
  /\ masks' = Some(out[1])
  /\ pc' = "resolved"
  /\ UNCHANGED embVars
  /\ UNCHANGED << image_width, image_height, click, emb, point_coords,
                  point_labels, feeds, runCalls, out, binary, nativeFile,
                  fullFile, error >>

\* lines 84-85: no positional output, the engine is called again for the
\* output named "masks"
ResolveNamed ==
  /\ pc = "ran"
  /\ Len(out) = 0
  /\ runCalls' = runCalls + 1
  /\ \/ /\ \E m \in LogitMaps : masks' = Some(m)
        /\ pc' = "resolved"
        /\ UNCHANGED error
     \/ /\ Fail("EngineError")
        /\ UNCHANGED masks
  /\ UNCHANGED embVars
  /\ UNCHANGED << image_width, image_height, click, emb, point_coords,
                  point_labels, feeds, out, binary, nativeFile, fullFile >>

(***************************************************************************)
(* Lines 87-88: binary = (mask > 0.0).astype(uint8) * 255                  *)
(***************************************************************************)
\* the threshold taken as mask >= 0.0
Binarize_Inclusive(mask) ==
  [p \in Pixels |-> IF mask[p] >= 0 THEN Foreground ELSE 0]

Binarize(mask) ==
  [p \in Pixels |-> IF mask[p] > 0 THEN Foreground ELSE 0]

\* Image.fromarray
FromArray(a) == [width |-> NativeSize, height |-> NativeSize, data |-> a]

\* nearest neighbour anchored at the pixel's corner: floor(x * src / dst)
SrcIndex_Corner(x, src, dst) == (x * src) \div dst

\* PIL nearest neighbour: the source index of output index x is
\* floor((x + 0.5) * src / dst)
SrcIndex(x, src, dst) == ((2 * x + 1) * src) \div (2 * dst)

\* Image.resize((w, h), Image.NEAREST), w > 0 and h > 0
Resize(img, w, h) ==
  [ width  |-> w,
    height |-> h,
    data   |-> [p \in (0 .. w - 1) \X (0 .. h - 1) |->
                  img.data[<< SrcIndex(p[1], img.width, w),
                              SrcIndex(p[2], img.height, h) >>]] ]

(***************************************************************************)
(* Lines 87-94: threshold, make the output directory, save <out>.png.      *)
(* The file system may refuse the directory or the file.                   *)
(***************************************************************************)
SaveNative ==
  /\ pc = "resolved"
  /\ binary' = Some(Binarize(Get(masks)))
  /\ \/ /\ nativeFile' = Some(FromArray(Binarize(Get(masks))))
        /\ pc' = "nativeSaved"
        /\ UNCHANGED error
     \/ /\ Fail("OSError")
        /\ UNCHANGED nativeFile
  /\ UNCHANGED embVars
  /\ UNCHANGED << image_width, image_height, click, emb, point_coords,
                  point_labels, feeds, runCalls, out, masks, fullFile >>

(***************************************************************************)
(* Lines 97-100: resize to the image size and save <out>.full.png.  resize *)
(* raises ValueError unless both sides are positive; the file system may   *)
(* refuse the file.                                                        *)
(***************************************************************************)
SaveFull ==
  /\ pc = "nativeSaved"
  /\ IF image_width < 1 \/ image_height < 1
     THEN /\ Fail("ValueError")
          /\ UNCHANGED fullFile
     ELSE \/ /\ fullFile' = Some(Resize(FromArray(Get(binary)), image_width,
                                          image_height))
             /\ pc' = "done"
             /\ UNCHANGED error
          \/ /\ Fail("OSError")
             /\ UNCHANGED fullFile
  /\ UNCHANGED embVars
  /\ UNCHANGED << image_width, image_height, click, emb, point_coords,
                  point_labels, feeds, runCalls, out, masks, binary,
                  nativeFile >>

Next ==
  \/ Load
  \/ LoadFail
  \/ Normalize
  \/ Invoke
  \/ ResolveIndex0
  \/ ResolveNamed
  \/ SaveNative
  \/ SaveFull

Spec == Init /\ [][Next]_vars

\* no decode request
DecIdle ==
  /\ pc = "idle"
  /\ image_width = 1
  /\ image_height = 1
  /\ click = <<>>
  /\ emb = NoValue
  /\ point_coords = NoValue
  /\ point_labels = NoValue
  /\ feeds = NoValue
  /\ runCalls = 0
  /\ out = NoValue
  /\ masks = NoValue
  /\ binary = NoValue
  /\ nativeFile = NoValue
  /\ fullFile = NoValue
  /\ error = NoError

(***************************************************************************)
(* generate_sam_embeddings.py                                              *)
(***************************************************************************)
\* the files that may be under --images, in the order sorted() gives their
\* paths
AllFiles ==
  << [dir |-> "",    stem |-> "a",     ext |-> ".jpg"],
     [dir |-> "",    stem |-> "a",     ext |-> ".png"],
     [dir |-> "",    stem |-> "b",     ext |-> ".PNG"],
     [dir |-> "",    stem |-> "notes", ext |-> ".txt"],
     [dir |-> "sub", stem |-> "a",     ext |-> ".png"] >>

FileIds == 1..Len(AllFiles)

\* --images: one file, or a directory holding any of the files
ImagesArgs ==
  { [kind |-> "file", files |-> {i}] : i \in FileIds }
    \cup { [kind |-> "dir", files |-> fs] : fs \in SUBSET FileIds }

\* str.lower on the suffixes in use
Lower(e) == IF e = ".PNG" THEN ".png" ELSE e

exts == {".jpg", ".jpeg", ".png", ".tif", ".tiff", ".bmp"}

\* sorted(): the ids in increasing order
RECURSIVE Sorted(_)
Sorted(S) ==
  IF S = {} THEN <<>>
  ELSE LET m == CHOOSE x \in S : \A y \in S : x <= y
       IN  <<m>> \o Sorted(S \ {m})

\* iter_images: the file itself, or the files of the tree with an image
\* suffix, sorted
iter_images(arg) ==
  IF arg.kind = "file" THEN Sorted(arg.files)
  ELSE Sorted({ i \in arg.files : Lower(AllFiles[i].ext) \in exts })

Queue == iter_images(images)

\* the image the loop is at
Current == Queue[idx + 1]

\* open(path, mode "w") followed by a complete write
WriteFile(files, name, content) ==
  { f \in files : f.name # name } \cup { [name |-> name, content |-> content] }

\* the content of a .json file whose write did not complete
Partial == 0

InitEmb ==
  /\ DecIdle
  /\ epc = "start"
  /\ images \in ImagesArgs
  /\ idx = 0
  /\ npyFiles = {}
  /\ jsonFiles = {}
  /\ count = 0
  /\ okLog = <<>>
  /\ sidecarFailed = {}

\* lines 97-101: the output directory is made and the model loaded
LoadSam ==
  /\ epc = "start"
  /\ epc' = "running"
  /\ UNCHANGED << images, idx, npyFiles, jsonFiles, count, okLog,
                  sidecarFailed >>
  /\ UNCHANGED decVars

\* mkdir or load_sam raises
LoadSamFail ==
  /\ epc = "start"
  /\ epc' = "aborted"
  /\ UNCHANGED << images, idx, npyFiles, jsonFiles, count, okLog,
                  sidecarFailed >>
  /\ UNCHANGED decVars

\* lines 105-108: cv2.imread returns None, the image is skipped
SkipUnreadable ==
  /\ epc = "running"
  /\ idx < Len(Queue)
  /\ idx' = idx + 1
  /\ UNCHANGED << epc, images, npyFiles, jsonFiles, count, okLog,
                  sidecarFailed >>
  /\ UNCHANGED decVars

\* lines 109-117 raise (the predictor, or np.save): the run ends
EmbedFail ==
  /\ epc = "running"
  /\ idx < Len(Queue)
  /\ epc' = "aborted"
  /\ UNCHANGED << images, idx, npyFiles, jsonFiles, count, okLog,
                  sidecarFailed >>
  /\ UNCHANGED decVars

\* lines 109-138, the metadata written
EmbedImage ==
  /\ epc = "running"
  /\ idx < Len(Queue)
  /\ npyFiles' = WriteFile(npyFiles, AllFiles[Current].stem, Current)
  /\ jsonFiles' = WriteFile(jsonFiles, AllFiles[Current].stem, Current)
  /\ count' = count + 1
  /\ okLog' = Append(okLog, Current)
  /\ idx' = idx + 1
  /\ UNCHANGED << epc, images, sidecarFailed >>
  /\ UNCHANGED decVars

\* the exception of the metadata step leaves the try block and ends the run
EmbedImageSidecarFails_Raise ==
  /\ epc = "running"
  /\ idx < Len(Queue)
  /\ npyFiles' = WriteFile(npyFiles, AllFiles[Current].stem, Current)
  /\ sidecarFailed' = sidecarFailed \cup {Current}
  /\ epc' = "aborted"
  /\ UNCHANGED << images, idx, jsonFiles, count, okLog >>
  /\ UNCHANGED decVars

\* lines 109-138, the metadata step raising: reading the image fails and
\* the .json file is left alone, or its write fails part-way
EmbedImageSidecarFails ==
  /\ epc = "running"
  /\ idx < Len(Queue)
  /\ npyFiles' = WriteFile(npyFiles, AllFiles[Current].stem, Current)
  /\ \/ jsonFiles' = jsonFiles
     \/ jsonFiles' = WriteFile(jsonFiles, AllFiles[Current].stem, Partial)
  /\ sidecarFailed' = sidecarFailed \cup {Current}
  /\ count' = count + 1
  /\ okLog' = Append(okLog, Current)
  /\ idx' = idx + 1
  /\ UNCHANGED << epc, images >>
  /\ UNCHANGED decVars

\* line 140: the loop is over, the count is printed
Finish ==
  /\ epc = "running"
  /\ idx = Len(Queue)
  /\ epc' = "done"
  /\ UNCHANGED << images, idx, npyFiles, jsonFiles, count, okLog,
                  sidecarFailed >>
  /\ UNCHANGED decVars

NextEmb ==
  \/ LoadSam
  \/ LoadSamFail
  \/ SkipUnreadable
  \/ EmbedFail
  \/ EmbedImage
  \/ EmbedImageSidecarFails
  \/ Finish

SpecEmb == InitEmb /\ [][NextEmb]_vars

(***************************************************************************)
(* Properties of the decode request.                                       *)
(***************************************************************************)
Built == point_labels # NoValue

\* the label a --click argument asks for
SuppliedLabel(c) == IF c.lbl = "none" THEN 1 ELSE IF c.lbl = "0" THEN 0 ELSE 2

\* the rational r is v * TargetLongSide / (k * max(width, height))
ScaledFrom(r, v, k) ==
  r[2] > 0 /\ r[1] * k * Max(image_width, image_height) = v * TargetLongSide * r[2]

PaddingRowLast ==
  /\ point_coords[Len(point_coords)] = << <<0, 1>>, <<0, 1>> >>
  /\ point_labels[Len(point_labels)] = -1

\* C1 as stated: whatever the number N >= 0 of supplied clicks, both point
\* arrays have exactly N + 1 rows.
C1_RowsAreClicksPlusOne ==
  Built => /\ Len(point_coords) = Len(click) + 1
           /\ Len(point_labels) = Len(click) + 1

\* C1 amended: both point arrays have the same number of rows, N + 1 for
\* N >= 1 supplied clicks and 2 for N = 0; the last row is the padding
\* entry (0,0) with label -1 and, for N >= 1, the first N rows are the
\* supplied clicks in order, scaled by 1024 / max(width, height).
C1_PaddingInvariant ==
  Built =>
    /\ Len(point_coords) = Len(point_labels)
    /\ Len(point_labels) = IF Len(click) = 0 THEN 2 ELSE Len(click) + 1
    /\ PaddingRowLast
    /\ \A i \in 1..Len(click) :
         /\ point_labels[i] = SuppliedLabel(click[i])
         /\ ScaledFrom(point_coords[i][1], click[i].x, 1)
         /\ ScaledFrom(point_coords[i][2], click[i].y, 1)

\* two clicks with labels 1 and 0 have been normalised
C1_Witness ==
  /\ pc = "built"
  /\ Len(click) = 2
  /\ point_labels = <<1, 0, -1>>

\* C2: a request ends with both mask files written, or with an error and no
\* mask file written.
C2_NoPartialMasks ==
  /\ pc = "done" => nativeFile # NoValue /\ fullFile # NoValue
  /\ pc = "failed" => nativeFile = NoValue /\ fullFile = NoValue

InvalidRequest ==
  \/ image_width < 1
  \/ image_height < 1
  \/ \E i \in 1..Len(click) : click[i].lbl \notin {"none", "-1", "0", "1"}

\* C3: a request with a non-positive image size or a label outside
\* {-1, 0, 1} builds no tensor, never reaches the engine and writes no mask.
C3_InvalidRequestRejected ==
  InvalidRequest =>
    /\ point_coords = NoValue /\ point_labels = NoValue /\ feeds = NoValue
    /\ runCalls = 0
    /\ nativeFile = NoValue /\ fullFile = NoValue

\* C4: an embedding whose shape is not [1,256,64,64] is never passed on: the
\* engine is never invoked with image_embeddings of another shape.
C4_EmbeddingShapeChecked ==
  runCalls > 0 => Get(feeds).image_embeddings = ExpectedShape

ResampledBack == Resize(Get(fullFile), NativeSize, NativeSize)

\* C5 as stated: for every image size, the full mask resampled back to the
\* native size equals the native mask.
C5_RoundTripAnySize ==
  pc = "done" => ResampledBack = Get(nativeFile)

\* C5 amended: when neither image side is smaller than the native side, the
\* full mask resampled back to the native size equals the native mask.
C5_RoundTripFromNativeUp ==
  (pc = "done" /\ image_width >= NativeSize /\ image_height >= NativeSize)
    => ResampledBack = Get(nativeFile)

\* a mask with both pixel values has been enlarged on both axes
C5_Witness ==
  /\ pc = "done"
  /\ image_width > NativeSize /\ image_height > NativeSize
  /\ \E p, q \in Pixels : Get(nativeFile).data[p] = 0 /\ Get(nativeFile).data[q] = 255

\* C6: a native pixel is 255 exactly when its logit is greater than 0, and
\* 0 otherwise; the native and the full mask hold no other value.
C6_ThresholdRule ==
  /\ binary # NoValue =>
       \A p \in Pixels : /\ Get(binary)[p] = 255 <=> Get(masks)[p] > 0
                         /\ Get(binary)[p] = 0 <=> Get(masks)[p] <= 0
  /\ nativeFile # NoValue =>
       /\ Get(nativeFile).data = Get(binary)
       /\ Get(nativeFile).width = NativeSize
       /\ Get(nativeFile).height = NativeSize
  /\ fullFile # NoValue =>
       \A p \in DOMAIN Get(fullFile).data : Get(fullFile).data[p] \in {0, 255}

\* a mask with a logit of exactly 0 and a positive logit has been written
C6_Witness ==
  /\ pc = "done"
  /\ \E p, q \in Pixels : Get(masks)[p] = 0 /\ Get(masks)[q] > 0

\* C7: without a click the arrays have 2 rows, labels [1, -1], the first
\* row being the image centre scaled like any click, the second (0,0).
C7_EmptyPromptDefault ==
  (Built /\ click = <<>>) =>
    /\ point_labels = <<1, -1>>
    /\ Len(point_coords) = 2
    /\ ScaledFrom(point_coords[1][1], image_width, 2)
    /\ ScaledFrom(point_coords[1][2], image_height, 2)
    /\ point_coords[2] = << <<0, 1>>, <<0, 1>> >>

\* a request without clicks on an image that is not square
C7_Witness ==
  /\ pc = "built"
  /\ click = <<>>
  /\ image_width = 3 /\ image_height = 2

\* C8: the engine is invoked at most once in a request.
C8_SingleInvocation ==
  runCalls <= 1

(***************************************************************************)
(* Properties of the embedding run.                                        *)
(***************************************************************************)
\* the place of image p in the order of the run
PositionOf(p) == CHOOSE k \in 1..Len(Queue) : Queue[k] = p

Logged(p) == \E k \in 1..Len(okLog) : okLog[k] = p

\* C9: an image whose metadata step raised keeps its .npy file, is counted
\* and reported, and the loop has gone past it.
C9_SidecarFailureSoft ==
  /\ count = Len(okLog)
  /\ \A p \in sidecarFailed :
       /\ \E f \in npyFiles : f.name = AllFiles[p].stem
       /\ Logged(p)
       /\ idx >= PositionOf(p)

\* the run is over, a metadata step raised and a later image was embedded
C9_Witness ==
  /\ epc = "done"
  /\ \E p \in sidecarFailed :
       \E k \in 1..Len(okLog) : okLog[k] # p /\ PositionOf(okLog[k]) > PositionOf(p)

\* C10: at the end of a run there are as many .npy files as images counted,
\* and the file named after each embedded image holds that image's
\* embedding.
C10_OneFilePerImage ==
  epc = "done" =>
    /\ Cardinality(npyFiles) = count
    /\ \A k \in 1..Len(okLog) :
         [name |-> AllFiles[okLog[k]].stem, content |-> okLog[k]] \in npyFiles

====
